---- MODULE Spec2Model ----
(***************************************************************************)
(* Slack notification provider of uptime-kuma: the configuration          *)
(* validator (validateNotificationConfig), the leveled console logger,     *)
(* the timezone resolver (getAllInformationFromTimezone) and the three     *)
(* local-time formatters (formatDay, formatDate, formatTime).              *)
(*                                                                         *)
(* JavaScript values are tagged records [t |-> type, v |-> text]; a plain  *)
(* object is a function from its own property names to values.  One       *)
(* action is one call of a method by the surrounding dispatch code; the    *)
(* variables hold the objects the caller and the module share, and the     *)
(* completion and the observable events of the most recent call.           *)
(*                                                                         *)
(* Spec interleaves all methods on samples of their arguments.             *)
(* SpecValidate, SpecTz and SpecFmt run one method each over all the       *)
(* arguments enumerated for it.  SpecLog runs the level helpers and the    *)
(* methods under every setting of logLevelsEnabled.                        *)
(***************************************************************************)
EXTENDS Integers, Sequences, FiniteSets, TLC

VARIABLES
    logLevelsEnabled,   \* the module-wide log level configuration object
    hostTimezone,       \* the zone of the process (TZ), in which Date reads local time
    notification,       \* the configuration object the caller holds
    call,               \* the most recent call: its name and its argument as passed
    result,             \* how that call completed: returned value or thrown error
    trace,              \* what that call did, in order: property reads and writes,
                        \* console lines, the throw
    held,               \* the record object last returned by the resolver, as the
                        \* caller holds (and may have changed) it
    remembered          \* a copy of what some earlier resolver call returned

vars == <<logLevelsEnabled, hostTimezone, notification, call, result, trace, held, remembered>>

----------------------------------------------------------------------------
(* JavaScript values *)

Str(s) == [t |-> "string", v |-> s]
Num(s) == [t |-> "number", v |-> s]
Bool(s) == [t |-> "boolean", v |-> s]
Undefined == [t |-> "undefined", v |-> "undefined"]
Null == [t |-> "null", v |-> "null"]

\* Variant of Truthy: only an absent or null value is taken for missing, an
\* empty string passes.
Truthy_emptyStringPasses(x) ==
    CASE x.t = "string" -> TRUE
      [] x.t = "number" -> x.v \notin {"0", "NaN"}
      [] x.t = "boolean" -> x.v = "true"
      [] OTHER -> FALSE

\* ToBoolean: what `!x` and `if (x)` test.
Truthy(x) ==
    CASE x.t = "string" -> x.v # ""
      [] x.t = "number" -> x.v \notin {"0", "NaN"}
      [] x.t = "boolean" -> x.v = "true"
      [] OTHER -> FALSE

\* obj[field] on a plain configuration object: an absent property reads undefined.
Get(obj, field) == IF field \in DOMAIN obj THEN obj[field] ELSE Undefined

\* obj[field] = value: the property is created when absent.
Put(obj, field, value) ==
    [f \in (DOMAIN obj) \cup {field} |-> IF f = field THEN value ELSE obj[f]]

----------------------------------------------------------------------------
(* The leveled logger *)

logLevelsDefault ==
    [debug |-> FALSE, info |-> TRUE, warn |-> TRUE, error |-> TRUE,
     compactLogs |-> TRUE]

\* One console.log line.  The timestamp and the colour codes are left out; the
\* line keeps the level, the message and the additional info it prints, the info
\* only when it is truthy (every object is, null is not).
logMessage(lv, logLevel, message, additionalInfo) ==
    <<[ev |-> "console.log", level |-> logLevel, message |-> message,
       info |-> additionalInfo,
       compact |-> lv.compactLogs]>>

\* Variant of completeLogDebug: the helper goes by the error level.
completeLogDebug_followsError(lv, message, additionalInfo) ==
    IF lv.error THEN logMessage(lv, "DEBUG", message, additionalInfo) ELSE <<>>

completeLogDebug(lv, message, additionalInfo) ==
    IF lv.debug THEN logMessage(lv, "DEBUG", message, additionalInfo) ELSE <<>>

completeLogInfo(lv, message, additionalInfo) ==
    IF lv.info THEN logMessage(lv, "INFO", message, additionalInfo) ELSE <<>>

completeLogWarn(lv, message, additionalInfo) ==
    IF lv.warn THEN logMessage(lv, "WARN", message, additionalInfo) ELSE <<>>

completeLogError(lv, message, additionalInfo) ==
    IF lv.error THEN logMessage(lv, "ERROR", message, additionalInfo) ELSE <<>>

NoInfo == [none |-> TRUE]

----------------------------------------------------------------------------
(* validateNotificationConfig *)

requiredFields ==
    << [field |-> "slackwebhookURL",
        message |-> "Slack webhook URL is required for notifications."],
       [field |-> "slackchannel",
        message |-> "Slack channel is required for notifications."],
       [field |-> "slackusername",
        message |-> "Slack username is required for notifications."] >>

DefaultIcon == Str(":robot_face:")

\* new Error(message)
NewError(message) == [name |-> "Error", message |-> message]

\* The body of the forEach callback for requiredFields[i]: the property read, and
\* for a falsy value the error log followed by the throw.
CheckField(lv, n, i) ==
    LET rf == requiredFields[i]
    IN  <<[ev |-> "get", field |-> rf.field]>> \o
        IF ~Truthy(Get(n, rf.field))
        THEN completeLogError(lv,
                 "Missing required field in Slack notification configuration",
                 [field |-> rf.field, message |-> rf.message, notification |-> n])
             \o <<[ev |-> "throw", error |-> NewError(rf.message)]>>
        ELSE <<>>

Threw(tr) == tr # <<>> /\ tr[Len(tr)].ev = "throw"

\* Variant of ForEachRequired: the loop goes on after a missing field and
\* reports every one.
RECURSIVE ForEachRequired_visitsAll(_, _, _)
ForEachRequired_visitsAll(lv, n, i) ==
    IF i > Len(requiredFields) THEN <<>>
    ELSE CheckField(lv, n, i) \o ForEachRequired_visitsAll(lv, n, i + 1)

\* requiredFields.forEach(...) from index i on: a throw in the callback leaves
\* the loop, the later elements are not visited.
RECURSIVE ForEachRequired(_, _, _)
ForEachRequired(lv, n, i) ==
    IF i > Len(requiredFields) THEN <<>>
    ELSE LET step == CheckField(lv, n, i)
         IN  IF Threw(step) THEN step
             ELSE step \o ForEachRequired(lv, n, i + 1)

\* Variant of IconStep: the default is logged but never written.
IconStep_noWrite(lv, n) ==
    <<[ev |-> "get", field |-> "slackiconemo"]>> \o
    IF ~Truthy(Get(n, "slackiconemo"))
    THEN completeLogDebug(lv, "Default Slack icon emoji set", [icon |-> DefaultIcon])
    ELSE completeLogDebug(lv, "Custom Slack icon emoji provided",
                          [icon |-> Get(n, "slackiconemo")])

\* Variant of IconStep: the default overwrites whatever icon is there.
IconStep_alwaysDefault(lv, n) ==
    <<[ev |-> "set", field |-> "slackiconemo", value |-> DefaultIcon]>>
    \o completeLogDebug(lv, "Default Slack icon emoji set", [icon |-> DefaultIcon])

\* Variant of IconStep: an icon that is there is cleared.
IconStep_toggles(lv, n) ==
    <<[ev |-> "get", field |-> "slackiconemo"]>> \o
    IF ~Truthy(Get(n, "slackiconemo"))
    THEN <<[ev |-> "set", field |-> "slackiconemo", value |-> DefaultIcon]>>
         \o completeLogDebug(lv, "Default Slack icon emoji set",
                             [icon |-> DefaultIcon])
    ELSE <<[ev |-> "set", field |-> "slackiconemo", value |-> Str("")]>>

\* The icon branch, reached only when the loop threw nothing.
IconStep(lv, n) ==
    <<[ev |-> "get", field |-> "slackiconemo"]>> \o
    IF ~Truthy(Get(n, "slackiconemo"))
    THEN <<[ev |-> "set", field |-> "slackiconemo", value |-> DefaultIcon]>>
         \o completeLogDebug(lv, "Default Slack icon emoji set",
                             [icon |-> DefaultIcon])
    ELSE completeLogDebug(lv, "Custom Slack icon emoji provided",
                          [icon |-> Get(n, "slackiconemo")])

\* Variant of ValidateTrace: the icon is defaulted before the required fields
\* are checked.
ValidateTrace_iconFirst(lv, n) ==
    LET loop == ForEachRequired(lv, n, 1)
    IN  IconStep(lv, n) \o loop

\* Everything one call does, in order.
ValidateTrace(lv, n) ==
    LET start == completeLogDebug(lv,
                     "Starting validation of Slack notification configuration",
                     [notification |-> n])
        loop  == ForEachRequired(lv, n, 1)
    IN  IF Threw(loop) THEN start \o loop
        ELSE start \o loop
             \o completeLogDebug(lv,
                    "All required fields are present in Slack notification configuration",
                    [requiredFields |-> [i \in 1..Len(requiredFields) |->
                                            requiredFields[i].field]])
             \o IconStep(lv, n)

\* The object after the writes of a trace.
RECURSIVE ApplyWrites(_, _)
ApplyWrites(n, tr) ==
    IF tr = <<>> THEN n
    ELSE ApplyWrites(IF Head(tr).ev = "set"
                     THEN Put(n, Head(tr).field, Head(tr).value) ELSE n,
                     Tail(tr))

\* Variant of Completion: the thrown error is caught and dropped.
Completion_swallowed(tr, value) == [kind |-> "return", value |-> value]

\* The completion of a call from its trace: the thrown error reaches the caller
\* (nothing in the method catches it), otherwise the method returns undefined.
Completion(tr, value) ==
    IF Threw(tr) THEN [kind |-> "throw", error |-> tr[Len(tr)].error]
    ELSE [kind |-> "return", value |-> value]

----------------------------------------------------------------------------
(* getAllInformationFromTimezone *)

\* The object literal built at the start of every call: its own properties.
timezoneToInfo ==
       ("Europe/Amsterdam" :> <<"Europe", "Netherlands", "Central European Time">>)
    @@ ("Europe/Andorra" :> <<"Europe", "Andorra", "Central European Time">>)
    @@ ("Europe/Belgrade" :> <<"Europe", "Serbia", "Central European Time">>)
    @@ ("Europe/Berlin" :> <<"Europe", "Germany", "Central European Time">>)
    @@ ("Europe/Brussels" :> <<"Europe", "Belgium", "Central European Time">>)
    @@ ("Europe/Bucharest" :> <<"Europe", "Romania", "Eastern European Time">>)
    @@ ("Europe/Budapest" :> <<"Europe", "Hungary", "Central European Time">>)
    @@ ("Europe/Chisinau" :> <<"Europe", "Moldova", "Eastern European Time">>)
    @@ ("Europe/Copenhagen" :> <<"Europe", "Denmark", "Central European Time">>)
    @@ ("Europe/Dublin" :> <<"Europe", "Ireland", "Greenwich Mean Time">>)
    @@ ("Europe/Helsinki" :> <<"Europe", "Finland", "Eastern European Time">>)
    @@ ("Europe/Istanbul" :> <<"Europe", "Turkey", "Turkey Time">>)
    @@ ("Europe/Kiev" :> <<"Europe", "Ukraine", "Eastern European Time">>)
    @@ ("Europe/Lisbon" :> <<"Europe", "Portugal", "Western European Time">>)
    @@ ("Europe/London" :> <<"Europe", "United Kingdom", "Greenwich Mean Time">>)
    @@ ("Europe/Luxembourg" :> <<"Europe", "Luxembourg", "Central European Time">>)
    @@ ("Europe/Madrid" :> <<"Europe", "Spain", "Central European Time">>)
    @@ ("Europe/Minsk" :> <<"Europe", "Belarus", "Minsk Time">>)
    @@ ("Europe/Monaco" :> <<"Europe", "Monaco", "Central European Time">>)
    @@ ("Europe/Moscow" :> <<"Europe", "Russia", "Moscow Time">>)
    @@ ("Europe/Oslo" :> <<"Europe", "Norway", "Central European Time">>)
    @@ ("Europe/Paris" :> <<"Europe", "France", "Central European Time">>)
    @@ ("Europe/Prague" :> <<"Europe", "Czech Republic", "Central European Time">>)
    @@ ("Europe/Riga" :> <<"Europe", "Latvia", "Eastern European Time">>)
    @@ ("Europe/Rome" :> <<"Europe", "Italy", "Central European Time">>)
    @@ ("Europe/Samara" :> <<"Europe", "Russia", "Samara Time">>)
    @@ ("Europe/Sofia" :> <<"Europe", "Bulgaria", "Eastern European Time">>)
    @@ ("Europe/Stockholm" :> <<"Europe", "Sweden", "Central European Time">>)
    @@ ("Europe/Tallinn" :> <<"Europe", "Estonia", "Eastern European Time">>)
    @@ ("Europe/Tirane" :> <<"Europe", "Albania", "Central European Time">>)
    @@ ("Europe/Vaduz" :> <<"Europe", "Liechtenstein", "Central European Time">>)
    @@ ("Europe/Vienna" :> <<"Europe", "Austria", "Central European Time">>)
    @@ ("Europe/Vilnius" :> <<"Europe", "Lithuania", "Eastern European Time">>)
    @@ ("Europe/Zurich" :> <<"Europe", "Switzerland", "Central European Time">>)
    @@ ("America/Chicago" :> <<"North America", "United States", "Central Standard Time">>)
    @@ ("America/Denver" :> <<"North America", "United States", "Mountain Standard Time">>)
    @@ ("America/Detroit" :> <<"North America", "United States", "Eastern Standard Time">>)
    @@ ("America/Houston" :> <<"North America", "United States", "Central Standard Time">>)
    @@ ("America/Indianapolis" :> <<"North America", "United States", "Eastern Standard Time">>)
    @@ ("America/Los_Angeles" :> <<"North America", "United States", "Pacific Standard Time">>)
    @@ ("America/Mexico_City" :> <<"North America", "Mexico", "Central Standard Time">>)
    @@ ("America/New_York" :> <<"North America", "United States", "Eastern Standard Time">>)
    @@ ("America/Regina" :> <<"North America", "Canada", "Central Standard Time">>)
    @@ ("America/Toronto" :> <<"North America", "Canada", "Eastern Standard Time">>)
    @@ ("America/Vancouver" :> <<"North America", "Canada", "Pacific Standard Time">>)
    @@ ("America/Winnipeg" :> <<"North America", "Canada", "Central Standard Time">>)
    @@ ("America/Argentina/Buenos_Aires" :> <<"South America", "Argentina", "Argentina Time">>)
    @@ ("America/Asuncion" :> <<"South America", "Paraguay", "Paraguay Time">>)
    @@ ("America/Bahia" :> <<"South America", "Brazil", "Brasilia Time">>)
    @@ ("America/Barbados" :> <<"South America", "Barbados", "Atlantic Standard Time">>)
    @@ ("America/Belize" :> <<"South America", "Belize", "Central Standard Time">>)
    @@ ("America/Colombia" :> <<"South America", "Colombia", "Colombia Time">>)
    @@ ("America/Curacao" :> <<"South America", "Curacao", "Atlantic Standard Time">>)
    @@ ("America/Guatemala" :> <<"South America", "Guatemala", "Central Standard Time">>)
    @@ ("America/Guayaquil" :> <<"South America", "Ecuador", "Ecuador Time">>)
    @@ ("America/Lima" :> <<"South America", "Peru", "Peru Time">>)
    @@ ("America/Panama" :> <<"South America", "Panama", "Eastern Standard Time">>)
    @@ ("America/Port_of_Spain" :> <<"South America", "Trinidad and Tobago", "Atlantic Standard Time">>)
    @@ ("America/Santiago" :> <<"South America", "Chile", "Chile Standard Time">>)
    @@ ("America/Sao_Paulo" :> <<"South America", "Brazil", "Brasilia Time">>)
    @@ ("Asia/Amman" :> <<"Asia", "Jordan", "Jordan Time">>)
    @@ ("Asia/Baghdad" :> <<"Asia", "Iraq", "Arabian Standard Time">>)
    @@ ("Asia/Bahrain" :> <<"Asia", "Bahrain", "Arabian Standard Time">>)
    @@ ("Asia/Bangkok" :> <<"Asia", "Thailand", "Indochina Time">>)
    @@ ("Asia/Beirut" :> <<"Asia", "Lebanon", "Eastern European Time">>)
    @@ ("Asia/Dhaka" :> <<"Asia", "Bangladesh", "Bangladesh Standard Time">>)
    @@ ("Asia/Dubai" :> <<"Asia", "UAE", "Gulf Standard Time">>)
    @@ ("Asia/Hong_Kong" :> <<"Asia", "Hong Kong", "Hong Kong Time">>)
    @@ ("Asia/Irkutsk" :> <<"Asia", "Russia", "Irkutsk Time">>)
    @@ ("Asia/Jakarta" :> <<"Asia", "Indonesia", "Western Indonesia Time">>)
    @@ ("Asia/Kolkata" :> <<"Asia", "India", "Indian Standard Time">>)
    @@ ("Asia/Kuala_Lumpur" :> <<"Asia", "Malaysia", "Malaysia Time">>)
    @@ ("Asia/Kuwait" :> <<"Asia", "Kuwait", "Arabian Standard Time">>)
    @@ ("Asia/Makassar" :> <<"Asia", "Indonesia", "Central Indonesia Time">>)
    @@ ("Asia/Manila" :> <<"Asia", "Philippines", "Philippine Time">>)
    @@ ("Asia/Muscat" :> <<"Asia", "Oman", "Gulf Standard Time">>)
    @@ ("Asia/Novosibirsk" :> <<"Asia", "Russia", "Novosibirsk Time">>)
    @@ ("Asia/Seoul" :> <<"Asia", "South Korea", "Korea Standard Time">>)
    @@ ("Asia/Singapore" :> <<"Asia", "Singapore", "Singapore Time">>)
    @@ ("Asia/Taipei" :> <<"Asia", "Taiwan", "Taipei Standard Time">>)
    @@ ("Asia/Tashkent" :> <<"Asia", "Uzbekistan", "Uzbekistan Time">>)
    @@ ("Asia/Tokyo" :> <<"Asia", "Japan", "Japan Standard Time">>)
    @@ ("Asia/Ulaanbaatar" :> <<"Asia", "Mongolia", "Ulaanbaatar Time">>)
    @@ ("Asia/Yangon" :> <<"Asia", "Myanmar", "Myanmar Time">>)
    @@ ("Australia/Adelaide" :> <<"Australia", "Australia", "Australian Central Standard Time">>)
    @@ ("Australia/Brisbane" :> <<"Australia", "Australia", "Australian Eastern Standard Time">>)
    @@ ("Australia/Darwin" :> <<"Australia", "Australia", "Australian Central Standard Time">>)
    @@ ("Australia/Hobart" :> <<"Australia", "Australia", "Australian Eastern Daylight Time">>)
    @@ ("Australia/Melbourne" :> <<"Australia", "Australia", "Australian Eastern Daylight Time">>)
    @@ ("Australia/Sydney" :> <<"Australia", "Australia", "Australian Eastern Daylight Time">>)
    @@ ("Africa/Addis_Ababa" :> <<"Africa", "Ethiopia", "East Africa Time">>)
    @@ ("Africa/Cairo" :> <<"Africa", "Egypt", "Eastern European Time">>)
    @@ ("Africa/Casablanca" :> <<"Africa", "Morocco", "Western European Time">>)
    @@ ("Africa/Harare" :> <<"Africa", "Zimbabwe", "Central Africa Time">>)
    @@ ("Africa/Johannesburg" :> <<"Africa", "South Africa", "South Africa Standard Time">>)
    @@ ("Africa/Khartoum" :> <<"Africa", "Sudan", "Central Africa Time">>)
    @@ ("Africa/Lagos" :> <<"Africa", "Nigeria", "West Africa Time">>)
    @@ ("Africa/Nairobi" :> <<"Africa", "Kenya", "East Africa Time">>)
    @@ ("Africa/Tripoli" :> <<"Africa", "Libya", "Eastern European Time">>)
    @@ ("Asia/Tehran" :> <<"Asia", "Iran", "Iran Standard Time">>)
    @@ ("Asia/Qatar" :> <<"Asia", "Qatar", "Arabian Standard Time">>)
    @@ ("Asia/Jerusalem" :> <<"Asia", "Israel", "Israel Standard Time">>)
    @@ ("Asia/Riyadh" :> <<"Asia", "Saudi Arabia", "Arabian Standard Time">>)
    @@ ("Pacific/Auckland" :> <<"Pacific", "New Zealand", "New Zealand Standard Time">>)
    @@ ("Pacific/Fiji" :> <<"Pacific", "Fiji", "Fiji Time">>)
    @@ ("Pacific/Guam" :> <<"Pacific", "Guam", "Chamorro Standard Time">>)
    @@ ("Pacific/Honolulu" :> <<"Pacific", "Hawaii", "Hawaii-Aleutian Standard Time">>)
    @@ ("Pacific/Pago_Pago" :> <<"Pacific", "American Samoa", "Samoa Standard Time">>)
    @@ ("Pacific/Port_Moresby" :> <<"Pacific", "Papua New Guinea", "Papua New Guinea Time">>)
    @@ ("Pacific/Suva" :> <<"Pacific", "Fiji", "Fiji Time">>)
    @@ ("Pacific/Tarawa" :> <<"Pacific", "Kiribati", "Gilbert Island Time">>)
    @@ ("Pacific/Wellington" :> <<"Pacific", "New Zealand", "New Zealand Standard Time">>)
    @@ ("Antarctica/Palmer" :> <<"Other", "Antarctica", "Chile Summer Time">>)
    @@ ("Antarctica/Vostok" :> <<"Other", "Antarctica", "Vostok Time">>)
    @@ ("Indian/Chagos" :> <<"Other", "British Indian Ocean Territory", "Indian Ocean Territory Time">>)
    @@ ("Indian/Mauritius" :> <<"Other", "Mauritius", "Mauritius Time">>)
    @@ ("Indian/Reunion" :> <<"Other", "Réunion", "Réunion Time">>)
    @@ ("Indian/Christmas" :> <<"Other", "Australia", "Australia Western Standard Time">>)
    @@ ("Indian/Kerguelen" :> <<"Other", "France", "French Southern and Antarctic Time">>)
    @@ ("Indian/Maldives" :> <<"Other", "Maldives", "Maldives Time">>)
    @@ ("Indian/Seychelles" :> <<"Other", "Seychelles", "Seychelles Time">>)

\* What the object literal inherits from Object.prototype: every name here is a
\* property of timezoneToInfo too.  "__proto__" reads the prototype object, the
\* others read functions.
ObjectPrototype ==
    { "constructor", "hasOwnProperty", "isPrototypeOf", "propertyIsEnumerable",
      "toLocaleString", "toString", "valueOf", "__proto__",
      "__defineGetter__", "__defineSetter__",
      "__lookupGetter__", "__lookupSetter__" }

\* ToString of a value, as a template literal and a property key take it.
ToStr(x) == x.v

\* Another spelling of a zone taken for the zone's key.  (NearMiss pairs such
\* spellings with the keys.)
Normalised(key) ==
    CASE key = "europe/amsterdam" -> "Europe/Amsterdam"
      [] key = " Europe/Amsterdam" -> "Europe/Amsterdam"
      [] key = "Europe/Kyiv" -> "Europe/Kiev"
      [] key = "Asia/Calcutta" -> "Asia/Kolkata"
      [] OTHER -> key

\* Variant of PropertyKey: the identifier is trimmed, case-folded and aliases
\* are resolved before the lookup.
PropertyKey_normalised(timezone) == Normalised(ToStr(timezone))

\* The property key timezoneToInfo[timezone] is read under: the string itself,
\* "undefined" for a missing argument, "null" for null.  No trimming, no case
\* folding.
PropertyKey(timezone) == ToStr(timezone)

\* timezoneToInfo[timezone]: an own entry (an array of strings), an inherited
\* member, or undefined.
LookupTimezone(timezone) ==
    LET key == PropertyKey(timezone)
    IN  IF key \in DOMAIN timezoneToInfo
        THEN [t |-> "array", v |-> timezoneToInfo[key]]
        ELSE IF key = "__proto__" THEN [t |-> "object", v |-> "Object.prototype"]
        ELSE IF key \in ObjectPrototype THEN [t |-> "function", v |-> key]
        ELSE Undefined

\* Variant of OrEmptyArray: a missing entry is replaced by a placeholder that
\* names the continent only.
OrEmptyArray_placeholder(x) ==
    IF x.t \in {"undefined", "null"} THEN [t |-> "array", v |-> <<"Unknown">>] ELSE x

\* x ?? []
OrEmptyArray(x) ==
    IF x.t \in {"undefined", "null"} THEN [t |-> "array", v |-> <<>>] ELSE x

\* Array destructuring needs an iterable: an array is one, a function or a plain
\* object is not (TypeError).
Iterable(x) == x.t = "array"

\* Variant of Element: the pattern is read one position off.
Element_offByOne(arr, i) == IF i < Len(arr.v) THEN Str(arr.v[i + 1]) ELSE Null

\* One element of the pattern [ a = null, b = null, c = null ]: the array's
\* i-th element, the default when the array is shorter.
Element(arr, i) == IF i <= Len(arr.v) THEN Str(arr.v[i]) ELSE Null

\* Variant of ReturnedObject: the result is memoised per identifier, the object
\* handed out before is handed out again.
ReturnedObject_memoised(timezone, fresh, earlier) ==
    IF "obj" \in DOMAIN earlier /\ earlier.timezone = timezone
    THEN earlier.obj ELSE fresh

\* return { continent, country, localTimezone }: an object created by the call.
\* `earlier` is what an earlier call returned, as the caller now holds it; the
\* method keeps no reference to it and builds its table anew.
ReturnedObject(timezone, fresh, earlier) == fresh

\* Everything one call does: [completion, trace].
getAllInformationFromTimezone(lv, earlier, timezone) ==
    LET source == OrEmptyArray(LookupTimezone(timezone))
    IN  IF ~Iterable(source)
        THEN LET tr == <<[ev |-> "throw",
                          error |-> [name |-> "TypeError",
                                     message |-> "not iterable"]]>>
             IN  [completion |-> Completion(tr, Undefined), trace |-> tr]
        ELSE
        LET continent == Element(source, 1)
            country == Element(source, 2)
            localTimezone == Element(source, 3)
            dbg == IF lv.debug
                   THEN completeLogDebug(lv,
                            "Timezone: " \o ToStr(timezone)
                            \o ", Continent: " \o ToStr(continent)
                            \o ", Country: " \o ToStr(country)
                            \o ", Local Timezone: " \o ToStr(localTimezone),
                            NoInfo)
                   ELSE <<>>
            wrn == IF continent = Str("Unknown") /\ lv.warn
                   THEN completeLogWarn(lv,
                            "Timezone not found in mappings: " \o ToStr(timezone),
                            NoInfo)
                   ELSE <<>>
            fresh == [continent |-> continent, country |-> country,
                      localTimezone |-> localTimezone]
        IN  [completion |-> Completion(dbg \o wrn,
                                      ReturnedObject(timezone, fresh, earlier)),
             trace |-> dbg \o wrn]

----------------------------------------------------------------------------
(* formatDay, formatDate, formatTime *)

\* Calendar arithmetic of the proleptic Gregorian calendar, as Date and dayjs
\* compute it.  A point in time is a number of seconds since 1970-01-01T00:00:00Z.

SecondsPerDay == 86400

\* Days since 1970-01-01 of the civil date y-m-d.
DaysFromCivil(y, m, d) ==
    LET yy == IF m <= 2 THEN y - 1 ELSE y
        era == yy \div 400
        yoe == yy - era * 400
        mp == IF m > 2 THEN m - 3 ELSE m + 9
        doy == (153 * mp + 2) \div 5 + d - 1
        doe == yoe * 365 + yoe \div 4 - yoe \div 100 + doy
    IN  era * 146097 + doe - 719468

\* The civil date of a day number.
CivilFromDays(days) ==
    LET z == days + 719468
        era == z \div 146097
        doe == z - era * 146097
        yoe == (doe - doe \div 1460 + doe \div 36524 - doe \div 146096) \div 365
        doy == doe - (365 * yoe + yoe \div 4 - yoe \div 100)
        mp == (5 * doy + 2) \div 153
        d == doy - (153 * mp + 2) \div 5 + 1
        m == IF mp < 10 THEN mp + 3 ELSE mp - 9
    IN  [year |-> (yoe + era * 400) + (IF m <= 2 THEN 1 ELSE 0), month |-> m, day |-> d]

\* Seconds since the epoch of a wall-clock reading taken as UTC (Date.UTC).
DateUTC(p) ==
    DaysFromCivil(p.year, p.month, p.day) * SecondsPerDay
        + p.hour * 3600 + p.minute * 60 + p.second

\* The wall-clock reading of a point in time shifted by an offset in minutes.
WallClock(instant, offsetMinutes) ==
    LET local == instant + offsetMinutes * 60
        days == local \div SecondsPerDay
        sod == local % SecondsPerDay
        c == CivilFromDays(days)
    IN  [year |-> c.year, month |-> c.month, day |-> c.day,
         hour |-> sod \div 3600, minute |-> (sod % 3600) \div 60, second |-> sod % 60,
         weekday |-> (days + 4) % 7]

\* The day number of the n-th Sunday (n = 1, 2) of a month, and of its last one.
NthSunday(y, m, n) ==
    LET first == DaysFromCivil(y, m, 1)
        toSunday == (7 - ((first + 4) % 7)) % 7
    IN  first + toSunday + 7 * (n - 1)

LastSunday(y, m) ==
    LET last == DaysFromCivil(y, m, 31)
    IN  last - ((last + 4) % 7)

\* The zones of the IANA database the model carries, each with its standard
\* offset in minutes and its daylight-saving rule (the rules in force since
\* 2007).  Intl.DateTimeFormat knows a zone by exactly such a name.
ZoneRules ==
       ("UTC" :> [std |-> 0, rule |-> "none"])
    @@ ("Europe/Amsterdam" :> [std |-> 60, rule |-> "EU"])
    @@ ("Europe/Paris" :> [std |-> 60, rule |-> "EU"])
    @@ ("Europe/London" :> [std |-> 0, rule |-> "EU"])
    @@ ("Asia/Tokyo" :> [std |-> 540, rule |-> "none"])
    @@ ("Asia/Kolkata" :> [std |-> 330, rule |-> "none"])
    @@ ("America/New_York" :> [std |-> -300, rule |-> "US"])
    @@ ("America/Los_Angeles" :> [std |-> -480, rule |-> "US"])

IanaZones == DOMAIN ZoneRules

StandardOffset(zone) == ZoneRules[zone].std

\* Whether daylight-saving time is in force in the zone at a point in time.
\* Europe: from 01:00 UTC on the last Sunday of March to 01:00 UTC on the last
\* Sunday of October.  United States: from 02:00 local standard time on the
\* second Sunday of March to 02:00 local daylight time on the first Sunday of
\* November.
InDaylightTime(zone, instant) ==
    LET y == CivilFromDays(instant \div SecondsPerDay).year
        std == StandardOffset(zone)
    IN  CASE ZoneRules[zone].rule = "EU" ->
                /\ instant >= LastSunday(y, 3) * SecondsPerDay + 3600
                /\ instant < LastSunday(y, 10) * SecondsPerDay + 3600
          [] ZoneRules[zone].rule = "US" ->
                /\ instant >= NthSunday(y, 3, 2) * SecondsPerDay + 7200 - std * 60
                /\ instant < NthSunday(y, 11, 1) * SecondsPerDay + 7200 - (std + 60) * 60
          [] OTHER -> FALSE

\* Variant of UtcOffset: every zone runs on UTC.
UtcOffset_utc(zone, instant) == 0

\* The zone's offset from UTC, in minutes, at a point in time.
UtcOffset(zone, instant) ==
    StandardOffset(zone) + (IF InDaylightTime(zone, instant) THEN 60 ELSE 0)


\* new Date(y, m, d, h, mi, s): the wall-clock reading p taken in the host zone.
\* A reading that occurs twice takes the earlier point in time; one that is
\* skipped takes the offset in force before the transition.
LocalToInstant(host, p) ==
    LET wall == DateUTC(p)
        std == StandardOffset(host)
        fits == { wall - o * 60 : o \in { q \in {std, std + 60} :
                                          UtcOffset(host, wall - q * 60) = q } }
    IN  IF fits = {} THEN wall - std * 60
        ELSE CHOOSE i \in fits : \A j \in fits : i <= j

\* The time strings the callers pass, as dayjs reads them.  "zulu": ISO 8601
\* ending in Z.  "plain": date and time with no zone designator (the form
\* uptime-kuma stores heartbeat times in); dayjs's own pattern matches it.
\* "offset": ISO 8601 with a numeric offset, in minutes.  Anything else is no
\* date.
At(kind, y, mo, d, h, mi, s, off) ==
    [kind |-> kind, year |-> y, month |-> mo, day |-> d,
     hour |-> h, minute |-> mi, second |-> s, offset |-> off]

ParsedText(text) ==
    CASE text = "2024-12-31T23:00:00Z" -> At("zulu", 2024, 12, 31, 23, 0, 0, 0)
      [] text = "2024-12-31T23:00:00" -> At("plain", 2024, 12, 31, 23, 0, 0, 0)
      [] text = "2024-12-31 23:00:00.000" -> At("plain", 2024, 12, 31, 23, 0, 0, 0)
      [] text = "2024-06-30T22:30:15Z" -> At("zulu", 2024, 6, 30, 22, 30, 15, 0)
      [] text = "2024-06-30 22:30:15" -> At("plain", 2024, 6, 30, 22, 30, 15, 0)
      [] text = "2024-03-31T00:59:59Z" -> At("zulu", 2024, 3, 31, 0, 59, 59, 0)
      [] text = "2024-03-31T01:00:00Z" -> At("zulu", 2024, 3, 31, 1, 0, 0, 0)
      [] text = "2024-02-29T04:05:06Z" -> At("zulu", 2024, 2, 29, 4, 5, 6, 0)
      [] text = "2025-01-01T00:30:00+01:00" -> At("offset", 2025, 1, 1, 0, 30, 0, 60)
      [] OTHER -> At("invalid", 0, 0, 0, 0, 0, 0, 0)

\* dayjs(x) and, with utc, dayjs.utc(x): the point in time of a string.  A
\* string ending in Z or carrying an offset goes to Date's parser and names its
\* own zone; a plain one is read as local time of the host by dayjs(x) and as
\* UTC by dayjs.utc(x).
DayjsParse(host, x, utc) ==
    LET p == ParsedText(x.v)
    IN  CASE p.kind = "zulu" -> [valid |-> TRUE, instant |-> DateUTC(p)]
          [] p.kind = "offset" -> [valid |-> TRUE, instant |-> DateUTC(p) - p.offset * 60]
          [] p.kind = "plain" ->
                [valid |-> TRUE,
                 instant |-> IF utc THEN DateUTC(p) ELSE LocalToInstant(host, p)]
          [] OTHER -> [valid |-> FALSE, instant |-> 0]

Digit(d) ==
    CASE d = 0 -> "0" [] d = 1 -> "1" [] d = 2 -> "2" [] d = 3 -> "3" [] d = 4 -> "4"
      [] d = 5 -> "5" [] d = 6 -> "6" [] d = 7 -> "7" [] d = 8 -> "8" [] d = 9 -> "9"

TwoDigits(n) == Digit(n \div 10) \o Digit(n % 10)
FourDigits(n) == TwoDigits(n \div 100) \o TwoDigits(n % 100)

WeekdayName(w) ==
    CASE w = 0 -> "Sunday" [] w = 1 -> "Monday" [] w = 2 -> "Tuesday"
      [] w = 3 -> "Wednesday" [] w = 4 -> "Thursday" [] w = 5 -> "Friday"
      [] w = 6 -> "Saturday"

MonthShort(m) ==
    CASE m = 1 -> "Jan" [] m = 2 -> "Feb" [] m = 3 -> "Mar" [] m = 4 -> "Apr"
      [] m = 5 -> "May" [] m = 6 -> "Jun" [] m = 7 -> "Jul" [] m = 8 -> "Aug"
      [] m = 9 -> "Sep" [] m = 10 -> "Oct" [] m = 11 -> "Nov" [] m = 12 -> "Dec"

\* .format(pattern) of a wall-clock reading, for the three patterns used.
Format(w, pattern) ==
    CASE pattern = "dddd" -> WeekdayName(w.weekday)
      [] pattern = "MMM DD, YYYY" ->
            MonthShort(w.month) \o " " \o TwoDigits(w.day) \o ", " \o FourDigits(w.year)
      [] pattern = "HH:mm:ss" ->
            TwoDigits(w.hour) \o ":" \o TwoDigits(w.minute) \o ":" \o TwoDigits(w.second)

\* The wall-clock reading that instance.tz(zone) carries, as dayjs's timezone
\* plugin obtains it.  The reading of the zone (toLocaleString with timeZone) is
\* read back as local time of the host (new Date(target)); the difference to
\* the point in time gives the offset.  With offset 0 the instance is put in
\* UTC mode; otherwise the instance is the one parsed from the target text, whose
\* fields are the host's reading of the point read back.  The two readings
\* differ where the zone's reading is one the host's clock skips.
TzReading(host, instant, zone) ==
    LET target == WallClock(instant, UtcOffset(zone, instant))
        reread == LocalToInstant(host, target)
        diff == (instant - reread) \div 60
        offset == UtcOffset(host, instant) - diff
    IN  IF offset = 0 THEN WallClock(instant, 0)
        ELSE WallClock(reread, UtcOffset(host, reread))

\* parsed.tz(timezone).format(pattern): [completion, trace].  tz() hands the
\* zone to the runtime through toLocaleString only.  For no date that call
\* answers "Invalid Date" before it looks at the zone, and the result formats
\* as "Invalid Date" whatever the zone name is; for a date, a name Intl does
\* not know makes it throw RangeError.
TzFormat(host, parsed, timezone, pattern) ==
    IF ~parsed.valid
    THEN [completion |-> Completion(<<>>, Str("Invalid Date")), trace |-> <<>>]
    ELSE IF ToStr(timezone) \notin IanaZones
    THEN LET tr == <<[ev |-> "throw",
                      error |-> [name |-> "RangeError",
                                 message |-> "Invalid time zone specified: "
                                             \o ToStr(timezone)]]>>
         IN  [completion |-> Completion(tr, Undefined), trace |-> tr]
    ELSE [completion |->
            Completion(<<>>,
                Str(Format(TzReading(host, parsed.instant, ToStr(timezone)),
                           pattern))),
          trace |-> <<>>]

\* Variant of InvalidInput: a missing argument is reported by an exception.
InvalidInput_raises(lv) ==
    LET tr == <<[ev |-> "throw",
                 error |-> NewError("Invalid input: Both utcTime and timezone are required.")]>>
    IN  [completion |-> Completion(tr, Undefined), trace |-> tr]

\* The guard the three formatters share: a falsy argument returns null, after a
\* debug-level message issued when the error level is enabled.
InvalidInput(lv) ==
    LET tr == IF lv.error
              THEN completeLogDebug(lv,
                       "Invalid input: Both utcTime and timezone are required.", NoInfo)
              ELSE <<>>
    IN  [completion |-> Completion(tr, Null), trace |-> tr]

formatDay(lv, host, utcTime, timezone) ==
    IF ~Truthy(utcTime) \/ ~Truthy(timezone) THEN InvalidInput(lv)
    ELSE TzFormat(host, DayjsParse(host, utcTime, FALSE), timezone, "dddd")

formatDate(lv, host, utcTime, timezone) ==
    IF ~Truthy(utcTime) \/ ~Truthy(timezone) THEN InvalidInput(lv)
    ELSE TzFormat(host, DayjsParse(host, utcTime, TRUE), timezone, "MMM DD, YYYY")

formatTime(lv, host, utcTime, timezone) ==
    IF ~Truthy(utcTime) \/ ~Truthy(timezone) THEN InvalidInput(lv)
    ELSE TzFormat(host, DayjsParse(host, utcTime, FALSE), timezone, "HH:mm:ss")

----------------------------------------------------------------------------
(* The callers: the configurations and identifiers they pass *)

NoRecord == [none |-> TRUE]
NoCall == [op |-> "none"]
NoResult == [kind |-> "none"]

Absent == [t |-> "absent", v |-> ""]

ConfigFields == {"slackwebhookURL", "slackchannel", "slackusername", "slackiconemo"}

\* A usual value of each field.
Usual(f) ==
    CASE f = "slackwebhookURL" -> Str("https://hooks.slack.com/services/T0/B0/X")
      [] f = "slackchannel" -> Str("#alerts")
      [] f = "slackusername" -> Str("uptime-kuma")
      [] f = "slackiconemo" -> Str(":bell:")

\* Values a stored configuration can carry besides non-empty strings.
OddValues == {Null, Undefined, Num("0"), Num("NaN"), Bool("false"), Num("42")}

\* The object with the chosen fields: a field chosen Absent is not a property.
\* Every configuration also carries a field the validator does not know.
MakeConfig(choice) ==
    [f \in {g \in ConfigFields : choice[g] # Absent} \cup {"slackchannelnotify"} |->
        IF f = "slackchannelnotify" THEN Bool("true") ELSE choice[f]]

FieldChoices(f) ==
    IF f = "slackiconemo" THEN {Absent, Str(""), Usual(f), DefaultIcon}
    ELSE {Absent, Str(""), Null, Usual(f)}

Configs ==
    { MakeConfig(c) : c \in { d \in [ConfigFields -> UNION {FieldChoices(f) : f \in ConfigFields}] :
                                \A f \in ConfigFields : d[f] \in FieldChoices(f) } }
    \cup
    { MakeConfig([f \in ConfigFields |->
                    IF f = g THEN x
                    ELSE IF f = "slackiconemo" THEN Absent ELSE Usual(f)]) :
        g \in ConfigFields, x \in OddValues }

\* The configurations used where calls are interleaved with the other operations.
ConfigSample ==
    { MakeConfig([f \in ConfigFields |-> IF f = "slackiconemo" THEN Absent ELSE Usual(f)]),
      MakeConfig([f \in ConfigFields |-> Usual(f)]),
      MakeConfig([f \in ConfigFields |->
                    IF f \in {"slackchannel", "slackiconemo"} THEN Absent ELSE Usual(f)]),
      MakeConfig([f \in ConfigFields |->
                    IF f = "slackusername" THEN Absent
                    ELSE IF f = "slackchannel" THEN Usual(f) ELSE Str("")]) }

\* Near misses of table keys: the same zone in another letter case, with
\* surrounding whitespace, misspelt, or under another name of the IANA database.
\* Each is paired with the key it would be taken for.
NearMiss ==
       ("europe/amsterdam" :> "Europe/Amsterdam")
    @@ ("EUROPE/AMSTERDAM" :> "Europe/Amsterdam")
    @@ (" Europe/Amsterdam" :> "Europe/Amsterdam")
    @@ ("Europe/Amsterdam " :> "Europe/Amsterdam")
    @@ ("Europe/Amsterdm" :> "Europe/Amsterdam")
    @@ ("Europe/Kyiv" :> "Europe/Kiev")
    @@ ("Asia/Calcutta" :> "Asia/Kolkata")
    @@ ("Asia/Rangoon" :> "Asia/Yangon")
    @@ ("America/Indiana/Indianapolis" :> "America/Indianapolis")
    @@ ("America/Buenos_Aires" :> "America/Argentina/Buenos_Aires")
    @@ ("US/Pacific" :> "America/Los_Angeles")
    @@ ("asia/tokyo" :> "Asia/Tokyo")

\* Arguments that are no key of the table and no near miss of one.
Strangers ==
    { Str("Not/AZone"), Str(""), Str("UTC"), Str("undefined"), Undefined, Null }
    \cup { Str(p) : p \in ObjectPrototype }

TzInputs ==
    { Str(k) : k \in DOMAIN timezoneToInfo }
    \cup { Str(k) : k \in DOMAIN NearMiss }
    \cup Strangers

\* The identifiers used where calls are interleaved with the other operations.
TzSample ==
    { Str("Europe/Amsterdam"), Str("Not/AZone"), Str("europe/amsterdam"),
      Str("constructor") }

RecordFields == {"continent", "country", "localTimezone"}

\* The zones the process may run in.
HostZones == {"UTC", "Europe/Amsterdam", "America/New_York"}

\* The time arguments of the formatters.
TimeInputs ==
    { Null, Undefined, Str("") }
    \cup { Str(t) : t \in { "2024-12-31T23:00:00Z", "2024-12-31T23:00:00",
                           "2024-12-31 23:00:00.000", "2024-06-30T22:30:15Z",
                           "2024-06-30 22:30:15", "2024-03-31T00:59:59Z",
                           "2024-03-31T01:00:00Z", "2024-02-29T04:05:06Z",
                           "2025-01-01T00:30:00+01:00", "not a date" } }

\* Their zone arguments: the zones carried, a name of no zone, nothing.
ZoneInputs ==
    { Null, Undefined, Str(""), Str("Not/AZone") } \cup { Str(z) : z \in IanaZones }

\* The arguments used where calls are interleaved with the other operations.
TimeSample == { Null, Str("2024-12-31T23:00:00Z"), Str("2024-12-31 23:00:00.000") }
ZoneSample == { Str(""), Str("Europe/Amsterdam") }

\* The settings logLevelsEnabled can be given in the source: each level and
\* compactLogs switched on or off.
LevelConfigs ==
    [debug : BOOLEAN, info : BOOLEAN, warn : BOOLEAN, error : BOOLEAN,
     compactLogs : BOOLEAN]

\* Messages and additional information handed to the level helpers.
LogMessages == {"Slack notification sent", "Request failed"}
LogInfos == {NoInfo, [status |-> Num("500")]}

----------------------------------------------------------------------------
(* The state machine *)

Init ==
    /\ logLevelsEnabled = logLevelsDefault
    /\ hostTimezone \in HostZones
    /\ notification \in ConfigSample
    /\ call = NoCall
    /\ result = NoResult
    /\ trace = <<>>
    /\ held = NoRecord
    /\ remembered = NoRecord

\* validateNotificationConfig(notification) on the caller's object.
ValidateNotificationConfig ==
    LET tr == ValidateTrace(logLevelsEnabled, notification)
    IN  /\ call' = [op |-> "validateNotificationConfig", arg |-> notification]
        /\ trace' = tr
        /\ result' = Completion(tr, Undefined)
        /\ notification' = ApplyWrites(notification, tr)
        /\ UNCHANGED <<logLevelsEnabled, hostTimezone, held, remembered>>

\* getAllInformationFromTimezone(timezone).  With `keep` the caller keeps the
\* returned object, and a copy of it as it was returned; it does so once.
GetAllInformationFromTimezone(timezone, keep) ==
    LET r == getAllInformationFromTimezone(logLevelsEnabled, held, timezone)
    IN  /\ call' = [op |-> "getAllInformationFromTimezone", arg |-> timezone]
        /\ trace' = r.trace
        /\ result' = r.completion
        /\ IF keep
           THEN /\ remembered = NoRecord
                /\ r.completion.kind = "return"
                /\ held' = [timezone |-> timezone, obj |-> r.completion.value]
                /\ remembered' = [timezone |-> timezone, obj |-> r.completion.value]
           ELSE UNCHANGED <<held, remembered>>
        /\ UNCHANGED <<logLevelsEnabled, hostTimezone, notification>>

\* Variant of Formatted: a call of a formatter switches the debug level on.
Formatted_enablesDebug(op, r, utcTime, timezone) ==
    /\ call' = [op |-> op, utcTime |-> utcTime, timezone |-> timezone]
    /\ trace' = r.trace
    /\ result' = r.completion
    /\ logLevelsEnabled' = [logLevelsEnabled EXCEPT !.debug = TRUE]
    /\ UNCHANGED <<hostTimezone, notification, held, remembered>>

\* formatDay, formatDate or formatTime(utcTime, timezone).
Formatted(op, r, utcTime, timezone) ==
    /\ call' = [op |-> op, utcTime |-> utcTime, timezone |-> timezone]
    /\ trace' = r.trace
    /\ result' = r.completion
    /\ UNCHANGED <<logLevelsEnabled, hostTimezone, notification, held, remembered>>

FormatDay(utcTime, timezone) ==
    Formatted("formatDay",
              formatDay(logLevelsEnabled, hostTimezone, utcTime, timezone),
              utcTime, timezone)

FormatDate(utcTime, timezone) ==
    Formatted("formatDate",
              formatDate(logLevelsEnabled, hostTimezone, utcTime, timezone),
              utcTime, timezone)

FormatTime(utcTime, timezone) ==
    Formatted("formatTime",
              formatTime(logLevelsEnabled, hostTimezone, utcTime, timezone),
              utcTime, timezone)

\* The caller writes a property of the record it holds.
MutateRecord(field, value) ==
    /\ held # NoRecord
    /\ held.obj[field] # value
    /\ held' = [held EXCEPT !.obj[field] = value]
    /\ call' = [op |-> "caller writes record"]
    /\ result' = NoResult
    /\ trace' = <<>>
    /\ UNCHANGED <<logLevelsEnabled, hostTimezone, notification, remembered>>

Next ==
    \/ ValidateNotificationConfig
    \/ \E timezone \in TzSample : \E keep \in BOOLEAN :
          GetAllInformationFromTimezone(timezone, keep)
    \/ \E field \in RecordFields : MutateRecord(field, Str("changed by caller"))
    \/ \E utcTime \in TimeSample : \E timezone \in ZoneSample :
          FormatDay(utcTime, timezone)
    \/ \E utcTime \in TimeSample : \E timezone \in ZoneSample :
          FormatDate(utcTime, timezone)
    \/ \E utcTime \in TimeSample : \E timezone \in ZoneSample :
          FormatTime(utcTime, timezone)

Spec == Init /\ [][Next]_vars

\* The validator alone, over every configuration.
InitValidate ==
    /\ logLevelsEnabled = logLevelsDefault
    /\ hostTimezone = "UTC"
    /\ notification \in Configs
    /\ call = NoCall
    /\ result = NoResult
    /\ trace = <<>>
    /\ held = NoRecord
    /\ remembered = NoRecord

NextValidate == ValidateNotificationConfig

SpecValidate == InitValidate /\ [][NextValidate]_vars

\* The resolver alone, over every key of the table and every other argument.
InitTz ==
    /\ logLevelsEnabled = logLevelsDefault
    /\ hostTimezone = "UTC"
    /\ notification = MakeConfig([f \in ConfigFields |-> Usual(f)])
    /\ call = NoCall
    /\ result = NoResult
    /\ trace = <<>>
    /\ held = NoRecord
    /\ remembered = NoRecord

NextTz == \E timezone \in TzInputs : GetAllInformationFromTimezone(timezone, FALSE)

SpecTz == InitTz /\ [][NextTz]_vars

\* The formatters alone, over every time and zone argument and every host zone.
InitFmt ==
    /\ logLevelsEnabled = logLevelsDefault
    /\ hostTimezone \in HostZones
    /\ notification = MakeConfig([f \in ConfigFields |-> Usual(f)])
    /\ call = NoCall
    /\ result = NoResult
    /\ trace = <<>>
    /\ held = NoRecord
    /\ remembered = NoRecord

NextFmt ==
    \E utcTime \in TimeInputs : \E timezone \in ZoneInputs :
        \/ FormatDay(utcTime, timezone)
        \/ FormatDate(utcTime, timezone)
        \/ FormatTime(utcTime, timezone)

SpecFmt == InitFmt /\ [][NextFmt]_vars

\* A call of a level helper.
Logged(helper, tr, message, additionalInfo) ==
    /\ call' = [op |-> helper, message |-> message, info |-> additionalInfo]
    /\ trace' = tr
    /\ result' = Completion(tr, Undefined)
    /\ UNCHANGED <<logLevelsEnabled, hostTimezone, notification, held, remembered>>

CompleteLogDebug(message, additionalInfo) ==
    Logged("completeLogDebug",
           completeLogDebug(logLevelsEnabled, message, additionalInfo),
           message, additionalInfo)

CompleteLogInfo(message, additionalInfo) ==
    Logged("completeLogInfo",
           completeLogInfo(logLevelsEnabled, message, additionalInfo),
           message, additionalInfo)

CompleteLogWarn(message, additionalInfo) ==
    Logged("completeLogWarn",
           completeLogWarn(logLevelsEnabled, message, additionalInfo),
           message, additionalInfo)

CompleteLogError(message, additionalInfo) ==
    Logged("completeLogError",
           completeLogError(logLevelsEnabled, message, additionalInfo),
           message, additionalInfo)

\* The level helpers and the methods that call them, under every setting of
\* logLevelsEnabled.
InitLog ==
    /\ logLevelsEnabled \in LevelConfigs
    /\ hostTimezone = "UTC"
    /\ notification \in ConfigSample
    /\ call = NoCall
    /\ result = NoResult
    /\ trace = <<>>
    /\ held = NoRecord
    /\ remembered = NoRecord

NextLog ==
    \/ \E message \in LogMessages : \E additionalInfo \in LogInfos :
          CompleteLogDebug(message, additionalInfo)
    \/ \E message \in LogMessages : \E additionalInfo \in LogInfos :
          CompleteLogInfo(message, additionalInfo)
    \/ \E message \in LogMessages : \E additionalInfo \in LogInfos :
          CompleteLogWarn(message, additionalInfo)
    \/ \E message \in LogMessages : \E additionalInfo \in LogInfos :
          CompleteLogError(message, additionalInfo)
    \/ ValidateNotificationConfig
    \/ \E timezone \in TzSample : GetAllInformationFromTimezone(timezone, FALSE)
    \/ \E utcTime \in TimeSample : \E timezone \in ZoneSample :
          FormatDay(utcTime, timezone)
    \/ \E utcTime \in TimeSample : \E timezone \in ZoneSample :
          FormatDate(utcTime, timezone)
    \/ \E utcTime \in TimeSample : \E timezone \in ZoneSample :
          FormatTime(utcTime, timezone)

SpecLog == InitLog /\ [][NextLog]_vars

----------------------------------------------------------------------------
(* Properties of validateNotificationConfig *)

\* The falsy values of JavaScript among those a configuration carries.
FalsyValues == {Str(""), Null, Undefined, Num("0"), Num("NaN"), Bool("false")}

\* A field is missing: no such property, or a falsy value.
Missing(n, f) == f \notin DOMAIN n \/ n[f] \in FalsyValues

Validated == call.op = "validateNotificationConfig"

AnyRequiredMissing(n) ==
    \/ Missing(n, "slackwebhookURL")
    \/ Missing(n, "slackchannel")
    \/ Missing(n, "slackusername")

\* The first missing required field in the order webhook URL, channel, username.
FirstMissing(n) ==
    IF Missing(n, "slackwebhookURL") THEN "slackwebhookURL"
    ELSE IF Missing(n, "slackchannel") THEN "slackchannel"
    ELSE "slackusername"

MessageNaming(f) ==
    CASE f = "slackwebhookURL" -> "Slack webhook URL is required for notifications."
      [] f = "slackchannel" -> "Slack channel is required for notifications."
      [] f = "slackusername" -> "Slack username is required for notifications."

\* C1: a configuration with a required field missing or falsy makes the call
\* fail, with the message of the first missing field in the order webhook URL,
\* channel, username, whatever the later fields hold.
C1_FirstMissingFieldNamed ==
    (Validated /\ AnyRequiredMissing(call.arg)) =>
        /\ result.kind = "throw"
        /\ result.error.message = MessageNaming(FirstMissing(call.arg))

\* The channel is the first missing field and the username is missing too.
C1_Witness ==
    /\ Validated
    /\ ~Missing(call.arg, "slackwebhookURL")
    /\ Missing(call.arg, "slackchannel")
    /\ Missing(call.arg, "slackusername")
    /\ result.kind = "throw"
    /\ result.error.message = "Slack channel is required for notifications."

\* C2 as stated: the failure raised for a missing required field is a
\* ConfigurationError, a kind of its own.
C2_RaisesConfigurationError ==
    (Validated /\ AnyRequiredMissing(call.arg)) =>
        /\ result.kind = "throw"
        /\ result.error.name = "ConfigurationError"

\* C2 amended: the failure raised for a missing required field is a plain Error
\* (no kind of its own) carrying the field's message, and the call completes by
\* throwing it: it reaches the caller.
C2_RaisesPlainErrorToCaller ==
    (Validated /\ AnyRequiredMissing(call.arg)) =>
        /\ result.kind = "throw"
        /\ result.error.name = "Error"
        /\ result.error.message \in
              { MessageNaming(f) : f \in {"slackwebhookURL", "slackchannel", "slackusername"} }
        /\ \E i \in 1..Len(trace) :
              trace[i].ev = "throw" /\ trace[i].error = result.error

C2_Witness ==
    /\ Validated
    /\ Missing(call.arg, "slackusername")
    /\ result.kind = "throw"
    /\ result.error = [name |-> "Error",
                       message |-> "Slack username is required for notifications."]

Positions(tr, P(_)) == { i \in 1..Len(tr) : P(tr[i]) }
IsThrow(e) == e.ev = "throw"
IsErrorLine(e) == e.ev = "console.log" /\ e.level = "ERROR"
IsRead(e) == e.ev = "get"

\* The required fields after f in the order of the checks.
FieldsAfter(f) ==
    CASE f = "slackwebhookURL" -> {"slackchannel", "slackusername"}
      [] f = "slackchannel" -> {"slackusername"}
      [] f = "slackusername" -> {}

\* C3: one call on a configuration with required fields missing raises exactly
\* one error and writes exactly one error line, both for the first missing
\* field, the line before the throw; no later required field is read or
\* reported.
C3_FailFast ==
    (Validated /\ AnyRequiredMissing(call.arg)) =>
        LET first == FirstMissing(call.arg)
            throws == Positions(trace, IsThrow)
            lines == Positions(trace, IsErrorLine)
        IN  /\ Cardinality(throws) = 1
            /\ Cardinality(lines) = 1
            /\ \A t \in throws : \A l \in lines :
                  /\ l < t
                  /\ trace[t].error.message = MessageNaming(first)
                  /\ trace[l].info.field = first
                  /\ trace[l].info.message = MessageNaming(first)
            /\ \A i \in Positions(trace, IsRead) :
                  trace[i].field \notin FieldsAfter(first)

\* All three required fields are missing and the call has failed on the first.
C3_Witness ==
    /\ Validated
    /\ Missing(call.arg, "slackwebhookURL")
    /\ Missing(call.arg, "slackchannel")
    /\ Missing(call.arg, "slackusername")
    /\ result.kind = "throw"
    /\ Cardinality(Positions(trace, IsErrorLine)) = 1

\* C4: with all three required fields and no icon field the call completes
\* normally, returns no value, and the icon field is ":robot_face:" afterwards.
C4_IconDefaulted ==
    (Validated /\ ~AnyRequiredMissing(call.arg) /\ "slackiconemo" \notin DOMAIN call.arg) =>
        /\ result = [kind |-> "return", value |-> Undefined]
        /\ "slackiconemo" \in DOMAIN notification
        /\ notification["slackiconemo"] = Str(":robot_face:")

C4_Witness ==
    /\ Validated
    /\ ~AnyRequiredMissing(call.arg)
    /\ "slackiconemo" \notin DOMAIN call.arg
    /\ result.kind = "return"
    /\ Get(notification, "slackiconemo") = Str(":robot_face:")

\* C5 as stated: with all three required fields and an icon field already on
\* the configuration, the call leaves the configuration unchanged.
C5_IconFieldKept ==
    (Validated /\ ~AnyRequiredMissing(call.arg) /\ "slackiconemo" \in DOMAIN call.arg) =>
        notification = call.arg

\* C5 amended: with all three required fields and an icon field holding a
\* truthy value (a non-empty string), the call leaves the configuration
\* unchanged.
C5_TruthyIconKept ==
    (Validated /\ ~AnyRequiredMissing(call.arg) /\ ~Missing(call.arg, "slackiconemo")) =>
        /\ result.kind = "return"
        /\ notification = call.arg

C5_Witness ==
    /\ Validated
    /\ ~AnyRequiredMissing(call.arg)
    /\ Get(call.arg, "slackiconemo") = Str(":bell:")
    /\ result.kind = "return"
    /\ notification = call.arg

\* C6: the call changes nothing but the icon field.  On success every other
\* field keeps its value and no field appears or disappears; on failure the
\* whole configuration, icon field included, is as it was.
C6_OnlyIconChanges ==
    Validated =>
        /\ result.kind = "return" =>
              /\ (DOMAIN notification) \ {"slackiconemo"} = (DOMAIN call.arg) \ {"slackiconemo"}
              /\ \A f \in (DOMAIN call.arg) \ {"slackiconemo"} : notification[f] = call.arg[f]
        /\ result.kind = "throw" => notification = call.arg
        /\ AnyRequiredMissing(call.arg) => notification = call.arg

\* A failed call on a configuration without icon field: the icon is not defaulted.
C6_Witness ==
    /\ Validated
    /\ result.kind = "throw"
    /\ "slackiconemo" \notin DOMAIN call.arg
    /\ "slackiconemo" \notin DOMAIN notification
    /\ notification["slackchannelnotify"] = Bool("true")

----------------------------------------------------------------------------
(* Properties of getAllInformationFromTimezone *)

Resolved == call.op = "getAllInformationFromTimezone"

AllNull == [continent |-> Null, country |-> Null, localTimezone |-> Null]

\* The argument is a string equal to a key of the table.
IsKey(x) == x.t = "string" /\ x.v \in DOMAIN timezoneToInfo

\* C7: for a key of the table the resolver returns the record holding that
\* entry's three values as continent, country and local timezone name (the
\* property the code names localTimezone); for "Europe/Amsterdam" these are
\* Europe, Netherlands, Central European Time.
C7_KeyResolvesToEntry ==
    (Resolved /\ IsKey(call.arg)) =>
        /\ result.kind = "return"
        /\ DOMAIN result.value = {"continent", "country", "localTimezone"}
        /\ result.value.continent = Str(timezoneToInfo[call.arg.v][1])
        /\ result.value.country = Str(timezoneToInfo[call.arg.v][2])
        /\ result.value.localTimezone = Str(timezoneToInfo[call.arg.v][3])
        /\ call.arg = Str("Europe/Amsterdam") =>
              result.value = [continent |-> Str("Europe"),
                              country |-> Str("Netherlands"),
                              localTimezone |-> Str("Central European Time")]

C7_Witness ==
    /\ Resolved
    /\ call.arg = Str("Europe/Amsterdam")
    /\ result.kind = "return"
    /\ result.value.country = Str("Netherlands")

\* C8: for every argument that is no key of the table (another string, the
\* empty string, a missing value) the resolver raises no error and returns the
\* record with continent, country and local timezone name all null.
C8_NonKeyResolvesToNull ==
    (Resolved /\ ~IsKey(call.arg)) =>
        /\ result.kind = "return"
        /\ result.value = AllNull

\* C9: the lookup does not normalise.  An identifier that is a near miss of a
\* key (other letter case, surrounding whitespace, misspelling, alias or renamed
\* form of the zone) and is itself no key resolves to the all-null record, not
\* to the entry of the key it resembles.
C9_NearMissNotNormalised ==
    (Resolved /\ call.arg.t = "string" /\ call.arg.v \in DOMAIN NearMiss
       /\ ~IsKey(call.arg)) =>
        /\ IsKey(Str(NearMiss[call.arg.v]))
        /\ result.kind = "return"
        /\ result.value = AllNull

C9_Witness ==
    /\ Resolved
    /\ call.arg = Str("Europe/Kyiv")
    /\ IsKey(Str("Europe/Kiev"))
    /\ result.kind = "return"
    /\ result.value = AllNull

\* C10: whatever was called in between, and whatever the caller wrote into the
\* record it was handed, resolving an identifier again returns a record equal
\* to the one returned for it before.
C10_SameRecordAgain ==
    (Resolved /\ result.kind = "return" /\ remembered # NoRecord
       /\ remembered.timezone = call.arg) =>
        result.value = remembered.obj

\* The caller changed the record it holds, then resolved its identifier again.
C10_Witness ==
    /\ Resolved
    /\ result.kind = "return"
    /\ remembered # NoRecord
    /\ remembered.timezone = call.arg
    /\ held.obj # remembered.obj
    /\ held.obj.continent = Str("changed by caller")
    /\ result.value = remembered.obj

----------------------------------------------------------------------------
(* Properties of formatDay, formatDate and formatTime *)

FormatterOps == {"formatDay", "formatDate", "formatTime"}

FormatterCalled == call.op \in FormatterOps

\* A missing or empty argument: null, undefined, the empty string.
MissingOrEmpty(x) == x \in {Null, Undefined, Str("")}

IsConsoleLine(e) == e.ev = "console.log"

\* C11: a formatter called with a missing or empty UTC time, or a missing or
\* empty timezone, returns null and raises nothing, whatever the other
\* argument is (a time, no date at all, a zone, a name of no zone).
C11_MissingArgumentGivesNull ==
    (FormatterCalled
       /\ (MissingOrEmpty(call.utcTime) \/ MissingOrEmpty(call.timezone))) =>
        result = [kind |-> "return", value |-> Null]

\* formatDay(null, "Europe/Paris")
C11_Witness ==
    /\ call.op = "formatDay"
    /\ call.utcTime = Null
    /\ call.timezone = Str("Europe/Paris")
    /\ result = [kind |-> "return", value |-> Null]

\* C12: a formatter called with a missing or empty UTC time or timezone writes
\* a diagnostic line to the console before it returns null.
C12_DiagnosticLogged ==
    (FormatterCalled
       /\ (MissingOrEmpty(call.utcTime) \/ MissingOrEmpty(call.timezone))
       /\ result = [kind |-> "return", value |-> Null]) =>
        Positions(trace, IsConsoleLine) # {}

\* What each zone's calendar and clock show, by the IANA time zone database, at
\* the UTC point in time each text names (a text without a designator naming
\* that reading of the UTC clock).
ZoneShows ==
       (<<"2024-12-31T23:00:00Z", "UTC">> :>
          [date |-> "Dec 31, 2024", weekday |-> "Tuesday", time |-> "23:00:00"])
    @@ (<<"2024-12-31T23:00:00Z", "Europe/Amsterdam">> :>
          [date |-> "Jan 01, 2025", weekday |-> "Wednesday", time |-> "00:00:00"])
    @@ (<<"2024-12-31T23:00:00Z", "Europe/Paris">> :>
          [date |-> "Jan 01, 2025", weekday |-> "Wednesday", time |-> "00:00:00"])
    @@ (<<"2024-12-31T23:00:00Z", "Europe/London">> :>
          [date |-> "Dec 31, 2024", weekday |-> "Tuesday", time |-> "23:00:00"])
    @@ (<<"2024-12-31T23:00:00Z", "Asia/Tokyo">> :>
          [date |-> "Jan 01, 2025", weekday |-> "Wednesday", time |-> "08:00:00"])
    @@ (<<"2024-12-31T23:00:00Z", "Asia/Kolkata">> :>
          [date |-> "Jan 01, 2025", weekday |-> "Wednesday", time |-> "04:30:00"])
    @@ (<<"2024-12-31T23:00:00Z", "America/New_York">> :>
          [date |-> "Dec 31, 2024", weekday |-> "Tuesday", time |-> "18:00:00"])
    @@ (<<"2024-12-31T23:00:00Z", "America/Los_Angeles">> :>
          [date |-> "Dec 31, 2024", weekday |-> "Tuesday", time |-> "15:00:00"])
    @@ (<<"2024-12-31T23:00:00", "UTC">> :>
          [date |-> "Dec 31, 2024", weekday |-> "Tuesday", time |-> "23:00:00"])
    @@ (<<"2024-12-31T23:00:00", "Europe/Amsterdam">> :>
          [date |-> "Jan 01, 2025", weekday |-> "Wednesday", time |-> "00:00:00"])
    @@ (<<"2024-12-31T23:00:00", "Europe/Paris">> :>
          [date |-> "Jan 01, 2025", weekday |-> "Wednesday", time |-> "00:00:00"])
    @@ (<<"2024-12-31T23:00:00", "Europe/London">> :>
          [date |-> "Dec 31, 2024", weekday |-> "Tuesday", time |-> "23:00:00"])
    @@ (<<"2024-12-31T23:00:00", "Asia/Tokyo">> :>
          [date |-> "Jan 01, 2025", weekday |-> "Wednesday", time |-> "08:00:00"])
    @@ (<<"2024-12-31T23:00:00", "Asia/Kolkata">> :>
          [date |-> "Jan 01, 2025", weekday |-> "Wednesday", time |-> "04:30:00"])
    @@ (<<"2024-12-31T23:00:00", "America/New_York">> :>
          [date |-> "Dec 31, 2024", weekday |-> "Tuesday", time |-> "18:00:00"])
    @@ (<<"2024-12-31T23:00:00", "America/Los_Angeles">> :>
          [date |-> "Dec 31, 2024", weekday |-> "Tuesday", time |-> "15:00:00"])
    @@ (<<"2024-12-31 23:00:00.000", "UTC">> :>
          [date |-> "Dec 31, 2024", weekday |-> "Tuesday", time |-> "23:00:00"])
    @@ (<<"2024-12-31 23:00:00.000", "Europe/Amsterdam">> :>
          [date |-> "Jan 01, 2025", weekday |-> "Wednesday", time |-> "00:00:00"])
    @@ (<<"2024-12-31 23:00:00.000", "Europe/Paris">> :>
          [date |-> "Jan 01, 2025", weekday |-> "Wednesday", time |-> "00:00:00"])
    @@ (<<"2024-12-31 23:00:00.000", "Europe/London">> :>
          [date |-> "Dec 31, 2024", weekday |-> "Tuesday", time |-> "23:00:00"])
    @@ (<<"2024-12-31 23:00:00.000", "Asia/Tokyo">> :>
          [date |-> "Jan 01, 2025", weekday |-> "Wednesday", time |-> "08:00:00"])
    @@ (<<"2024-12-31 23:00:00.000", "Asia/Kolkata">> :>
          [date |-> "Jan 01, 2025", weekday |-> "Wednesday", time |-> "04:30:00"])
    @@ (<<"2024-12-31 23:00:00.000", "America/New_York">> :>
          [date |-> "Dec 31, 2024", weekday |-> "Tuesday", time |-> "18:00:00"])
    @@ (<<"2024-12-31 23:00:00.000", "America/Los_Angeles">> :>
          [date |-> "Dec 31, 2024", weekday |-> "Tuesday", time |-> "15:00:00"])
    @@ (<<"2024-06-30T22:30:15Z", "UTC">> :>
          [date |-> "Jun 30, 2024", weekday |-> "Sunday", time |-> "22:30:15"])
    @@ (<<"2024-06-30T22:30:15Z", "Europe/Amsterdam">> :>
          [date |-> "Jul 01, 2024", weekday |-> "Monday", time |-> "00:30:15"])
    @@ (<<"2024-06-30T22:30:15Z", "Europe/Paris">> :>
          [date |-> "Jul 01, 2024", weekday |-> "Monday", time |-> "00:30:15"])
    @@ (<<"2024-06-30T22:30:15Z", "Europe/London">> :>
          [date |-> "Jun 30, 2024", weekday |-> "Sunday", time |-> "23:30:15"])
    @@ (<<"2024-06-30T22:30:15Z", "Asia/Tokyo">> :>
          [date |-> "Jul 01, 2024", weekday |-> "Monday", time |-> "07:30:15"])
    @@ (<<"2024-06-30T22:30:15Z", "Asia/Kolkata">> :>
          [date |-> "Jul 01, 2024", weekday |-> "Monday", time |-> "04:00:15"])
    @@ (<<"2024-06-30T22:30:15Z", "America/New_York">> :>
          [date |-> "Jun 30, 2024", weekday |-> "Sunday", time |-> "18:30:15"])
    @@ (<<"2024-06-30T22:30:15Z", "America/Los_Angeles">> :>
          [date |-> "Jun 30, 2024", weekday |-> "Sunday", time |-> "15:30:15"])
    @@ (<<"2024-06-30 22:30:15", "UTC">> :>
          [date |-> "Jun 30, 2024", weekday |-> "Sunday", time |-> "22:30:15"])
    @@ (<<"2024-06-30 22:30:15", "Europe/Amsterdam">> :>
          [date |-> "Jul 01, 2024", weekday |-> "Monday", time |-> "00:30:15"])
    @@ (<<"2024-06-30 22:30:15", "Europe/Paris">> :>
          [date |-> "Jul 01, 2024", weekday |-> "Monday", time |-> "00:30:15"])
    @@ (<<"2024-06-30 22:30:15", "Europe/London">> :>
          [date |-> "Jun 30, 2024", weekday |-> "Sunday", time |-> "23:30:15"])
    @@ (<<"2024-06-30 22:30:15", "Asia/Tokyo">> :>
          [date |-> "Jul 01, 2024", weekday |-> "Monday", time |-> "07:30:15"])
    @@ (<<"2024-06-30 22:30:15", "Asia/Kolkata">> :>
          [date |-> "Jul 01, 2024", weekday |-> "Monday", time |-> "04:00:15"])
    @@ (<<"2024-06-30 22:30:15", "America/New_York">> :>
          [date |-> "Jun 30, 2024", weekday |-> "Sunday", time |-> "18:30:15"])
    @@ (<<"2024-06-30 22:30:15", "America/Los_Angeles">> :>
          [date |-> "Jun 30, 2024", weekday |-> "Sunday", time |-> "15:30:15"])
    @@ (<<"2024-03-31T00:59:59Z", "UTC">> :>
          [date |-> "Mar 31, 2024", weekday |-> "Sunday", time |-> "00:59:59"])
    @@ (<<"2024-03-31T00:59:59Z", "Europe/Amsterdam">> :>
          [date |-> "Mar 31, 2024", weekday |-> "Sunday", time |-> "01:59:59"])
    @@ (<<"2024-03-31T00:59:59Z", "Europe/Paris">> :>
          [date |-> "Mar 31, 2024", weekday |-> "Sunday", time |-> "01:59:59"])
    @@ (<<"2024-03-31T00:59:59Z", "Europe/London">> :>
          [date |-> "Mar 31, 2024", weekday |-> "Sunday", time |-> "00:59:59"])
    @@ (<<"2024-03-31T00:59:59Z", "Asia/Tokyo">> :>
          [date |-> "Mar 31, 2024", weekday |-> "Sunday", time |-> "09:59:59"])
    @@ (<<"2024-03-31T00:59:59Z", "Asia/Kolkata">> :>
          [date |-> "Mar 31, 2024", weekday |-> "Sunday", time |-> "06:29:59"])
    @@ (<<"2024-03-31T00:59:59Z", "America/New_York">> :>
          [date |-> "Mar 30, 2024", weekday |-> "Saturday", time |-> "20:59:59"])
    @@ (<<"2024-03-31T00:59:59Z", "America/Los_Angeles">> :>
          [date |-> "Mar 30, 2024", weekday |-> "Saturday", time |-> "17:59:59"])
    @@ (<<"2024-03-31T01:00:00Z", "UTC">> :>
          [date |-> "Mar 31, 2024", weekday |-> "Sunday", time |-> "01:00:00"])
    @@ (<<"2024-03-31T01:00:00Z", "Europe/Amsterdam">> :>
          [date |-> "Mar 31, 2024", weekday |-> "Sunday", time |-> "03:00:00"])
    @@ (<<"2024-03-31T01:00:00Z", "Europe/Paris">> :>
          [date |-> "Mar 31, 2024", weekday |-> "Sunday", time |-> "03:00:00"])
    @@ (<<"2024-03-31T01:00:00Z", "Europe/London">> :>
          [date |-> "Mar 31, 2024", weekday |-> "Sunday", time |-> "02:00:00"])
    @@ (<<"2024-03-31T01:00:00Z", "Asia/Tokyo">> :>
          [date |-> "Mar 31, 2024", weekday |-> "Sunday", time |-> "10:00:00"])
    @@ (<<"2024-03-31T01:00:00Z", "Asia/Kolkata">> :>
          [date |-> "Mar 31, 2024", weekday |-> "Sunday", time |-> "06:30:00"])
    @@ (<<"2024-03-31T01:00:00Z", "America/New_York">> :>
          [date |-> "Mar 30, 2024", weekday |-> "Saturday", time |-> "21:00:00"])
    @@ (<<"2024-03-31T01:00:00Z", "America/Los_Angeles">> :>
          [date |-> "Mar 30, 2024", weekday |-> "Saturday", time |-> "18:00:00"])
    @@ (<<"2024-02-29T04:05:06Z", "UTC">> :>
          [date |-> "Feb 29, 2024", weekday |-> "Thursday", time |-> "04:05:06"])
    @@ (<<"2024-02-29T04:05:06Z", "Europe/Amsterdam">> :>
          [date |-> "Feb 29, 2024", weekday |-> "Thursday", time |-> "05:05:06"])
    @@ (<<"2024-02-29T04:05:06Z", "Europe/Paris">> :>
          [date |-> "Feb 29, 2024", weekday |-> "Thursday", time |-> "05:05:06"])
    @@ (<<"2024-02-29T04:05:06Z", "Europe/London">> :>
          [date |-> "Feb 29, 2024", weekday |-> "Thursday", time |-> "04:05:06"])
    @@ (<<"2024-02-29T04:05:06Z", "Asia/Tokyo">> :>
          [date |-> "Feb 29, 2024", weekday |-> "Thursday", time |-> "13:05:06"])
    @@ (<<"2024-02-29T04:05:06Z", "Asia/Kolkata">> :>
          [date |-> "Feb 29, 2024", weekday |-> "Thursday", time |-> "09:35:06"])
    @@ (<<"2024-02-29T04:05:06Z", "America/New_York">> :>
          [date |-> "Feb 28, 2024", weekday |-> "Wednesday", time |-> "23:05:06"])
    @@ (<<"2024-02-29T04:05:06Z", "America/Los_Angeles">> :>
          [date |-> "Feb 28, 2024", weekday |-> "Wednesday", time |-> "20:05:06"])
    @@ (<<"2025-01-01T00:30:00+01:00", "UTC">> :>
          [date |-> "Dec 31, 2024", weekday |-> "Tuesday", time |-> "23:30:00"])
    @@ (<<"2025-01-01T00:30:00+01:00", "Europe/Amsterdam">> :>
          [date |-> "Jan 01, 2025", weekday |-> "Wednesday", time |-> "00:30:00"])
    @@ (<<"2025-01-01T00:30:00+01:00", "Europe/Paris">> :>
          [date |-> "Jan 01, 2025", weekday |-> "Wednesday", time |-> "00:30:00"])
    @@ (<<"2025-01-01T00:30:00+01:00", "Europe/London">> :>
          [date |-> "Dec 31, 2024", weekday |-> "Tuesday", time |-> "23:30:00"])
    @@ (<<"2025-01-01T00:30:00+01:00", "Asia/Tokyo">> :>
          [date |-> "Jan 01, 2025", weekday |-> "Wednesday", time |-> "08:30:00"])
    @@ (<<"2025-01-01T00:30:00+01:00", "Asia/Kolkata">> :>
          [date |-> "Jan 01, 2025", weekday |-> "Wednesday", time |-> "05:00:00"])
    @@ (<<"2025-01-01T00:30:00+01:00", "America/New_York">> :>
          [date |-> "Dec 31, 2024", weekday |-> "Tuesday", time |-> "18:30:00"])
    @@ (<<"2025-01-01T00:30:00+01:00", "America/Los_Angeles">> :>
          [date |-> "Dec 31, 2024", weekday |-> "Tuesday", time |-> "15:30:00"])

\* C13: formatDate returns the calendar date of the UTC instant in the target
\* zone, as "Mon DD, YYYY", and not the date in UTC: where the zone's offset
\* carries the instant over midnight the date is that of the next (or the
\* previous) local day, across month and year ends too, whatever zone the host
\* runs in.  formatDate("2024-12-31T23:00:00Z", "Europe/Amsterdam") is
\* "Jan 01, 2025".
C13_DateInTargetZone ==
    (call.op = "formatDate"
       /\ call.utcTime.t = "string" /\ call.timezone.t = "string"
       /\ <<call.utcTime.v, call.timezone.v>> \in DOMAIN ZoneShows) =>
        result = [kind |-> "return",
                  value |-> Str(ZoneShows[<<call.utcTime.v, call.timezone.v>>].date)]

C13_Witness ==
    /\ call.op = "formatDate"
    /\ call.utcTime = Str("2024-12-31T23:00:00Z")
    /\ call.timezone = Str("Europe/Amsterdam")
    /\ result = [kind |-> "return", value |-> Str("Jan 01, 2025")]

\* C14: the three formatters read the time argument as the same UTC instant,
\* with or without a zone designator in the text and whatever zone the host
\* runs in: for the same pair of arguments formatDate returns the date the zone
\* shows at that instant, formatDay the weekday of that date and formatTime the
\* clock time of that same local instant.
C14_FormattersAgree ==
    (FormatterCalled
       /\ call.utcTime.t = "string" /\ call.timezone.t = "string"
       /\ <<call.utcTime.v, call.timezone.v>> \in DOMAIN ZoneShows) =>
        LET shown == ZoneShows[<<call.utcTime.v, call.timezone.v>>]
            date == formatDate(logLevelsEnabled, hostTimezone,
                               call.utcTime, call.timezone).completion
        IN  /\ result.kind = "return"
            /\ date = [kind |-> "return", value |-> Str(shown.date)]
            /\ call.op = "formatDay" => result.value = Str(shown.weekday)
            /\ call.op = "formatTime" => result.value = Str(shown.time)

----------------------------------------------------------------------------
(* Properties of the resolver's and the module's logging and state *)

IsWarningNaming(timezone, e) ==
    /\ e.ev = "console.log"
    /\ e.level = "WARN"
    /\ e.message = "Timezone not found in mappings: " \o timezone.v

\* C15: when the resolver is called with an argument that the mapping does not
\* hold (it returns the all-null record) and the warn level is enabled, a
\* warning naming that argument is written.
C15_UnknownTimezoneWarned ==
    (Resolved /\ ~IsKey(call.arg) /\ logLevelsEnabled.warn
       /\ result = [kind |-> "return", value |-> AllNull]) =>
        \E i \in 1..Len(trace) : IsWarningNaming(call.arg, trace[i])

\* C16: no operation writes the state the process shares.  After any sequence
\* of calls of the validator, the resolver and the formatters (and of the
\* logging helpers they call) the log-level configuration has its initial
\* values, debug off and info, warn, error and compactLogs on, and the table
\* still maps its keys to the same entries: "Europe/Amsterdam" resolves to
\* Europe, Netherlands, Central European Time.
C16_ProcessStateUntouched ==
    /\ logLevelsEnabled = [debug |-> FALSE, info |-> TRUE, warn |-> TRUE,
                           error |-> TRUE, compactLogs |-> TRUE]
    /\ (Resolved /\ call.arg = Str("Europe/Amsterdam")) =>
          result = [kind |-> "return",
                    value |-> [continent |-> Str("Europe"),
                               country |-> Str("Netherlands"),
                               localTimezone |-> Str("Central European Time")]]

\* The validator has defaulted the icon, the resolver has handed out a record,
\* the caller has written to it, and a formatter was called last.
C16_Witness ==
    /\ FormatterCalled
    /\ "slackiconemo" \in DOMAIN notification
    /\ notification["slackiconemo"] = Str(":robot_face:")
    /\ held # NoRecord
    /\ remembered # NoRecord
    /\ held.obj # remembered.obj
    /\ logLevelsEnabled = logLevelsDefault

----------------------------------------------------------------------------
(* Properties of repeated validation *)

\* C17: validating the same object a second time gives the outcome of the first
\* call, the same error or success again, and changes no field of the object,
\* the icon included.
C17_SecondCallSame ==
    [][(Validated /\ call'.op = "validateNotificationConfig") =>
          /\ result' = result
          /\ notification' = notification]_vars

\* The validator was called on an object that is as a successful call leaves
\* it, the default icon in place, and succeeded again.
C17_Witness ==
    /\ Validated
    /\ call.arg = notification
    /\ result = [kind |-> "return", value |-> Undefined]
    /\ notification["slackiconemo"] = Str(":robot_face:")

----------------------------------------------------------------------------
(* Properties of the returned record *)

\* C18: a record the resolver returns is never partially filled.  For a key of
\* the table, whose entry has exactly three values, continent, country and
\* local timezone name are all three strings; for any other argument all three
\* are null.
C18_AllOrNothing ==
    (Resolved /\ result.kind = "return") =>
        /\ DOMAIN result.value = RecordFields
        /\ IF IsKey(call.arg)
           THEN /\ Len(timezoneToInfo[call.arg.v]) = Cardinality(RecordFields)
                /\ \A f \in RecordFields : result.value[f].t = "string"
           ELSE \A f \in RecordFields : result.value[f] = Null

\* A key resolved to a record of three strings.
C18_Witness ==
    /\ Resolved
    /\ call.arg = Str("Asia/Tokyo")
    /\ result.kind = "return"
    /\ \A f \in RecordFields : result.value[f].t = "string"

----------------------------------------------------------------------------
(* Properties of the level helpers *)

\* The level each helper writes at, and the switch of each level.
HelperLevel ==
       ("completeLogDebug" :> "DEBUG") @@ ("completeLogInfo" :> "INFO")
    @@ ("completeLogWarn" :> "WARN") @@ ("completeLogError" :> "ERROR")

LevelSwitch ==
       ("DEBUG" :> "debug") @@ ("INFO" :> "info")
    @@ ("WARN" :> "warn") @@ ("ERROR" :> "error")

HelperCalled == call.op \in DOMAIN HelperLevel

\* C19: a message handed to a level helper reaches the console if and only if
\* the helper's own level is switched on.  So every line a method writes is of a
\* level that is on, whatever level the method itself tested before it called
\* the helper, and with debug off (the setting shipped) no DEBUG line is ever
\* written: the formatters' message for a missing argument is written when
\* debug is on and the error level too, and not otherwise.
C19_LevelGatesLine ==
    /\ HelperCalled =>
          (logLevelsEnabled[LevelSwitch[HelperLevel[call.op]]]
             <=> \E i \in 1..Len(trace) :
                    /\ IsConsoleLine(trace[i])
                    /\ trace[i].level = HelperLevel[call.op]
                    /\ trace[i].message = call.message)
    /\ \A i \in 1..Len(trace) :
          IsConsoleLine(trace[i]) => logLevelsEnabled[LevelSwitch[trace[i].level]]
    /\ ~logLevelsEnabled.debug =>
          \A i \in 1..Len(trace) :
              IsConsoleLine(trace[i]) => trace[i].level # "DEBUG"
    /\ (FormatterCalled
          /\ (MissingOrEmpty(call.utcTime) \/ MissingOrEmpty(call.timezone))) =>
          ((logLevelsEnabled.debug /\ logLevelsEnabled.error)
             <=> Positions(trace, IsConsoleLine) # {})

\* A formatter met a missing argument with the error level on and debug off:
\* the message went to the debug helper and no line was written.
C19_Witness ==
    /\ FormatterCalled
    /\ MissingOrEmpty(call.utcTime)
    /\ logLevelsEnabled.error
    /\ ~logLevelsEnabled.debug
    /\ logLevelsEnabled.warn
    /\ trace = <<>>
    /\ result = [kind |-> "return", value |-> Null]

====
